---- MODULE Spec2Model ----
(***************************************************************************)
(* A model of the pka book catalog: the SQLite repository                  *)
(* (internal/storage/sqlite.go), the catalog service                       *)
(* (internal/book/service.go) and the retrieval engine (search.Engine).    *)
(*                                                                         *)
(* Strings are sequences of Unicode code points.  A float32 is an integer  *)
(* number of "ticks" of 1e-7; the text that "%f" prints for it is the      *)
(* integer number of millionths it shows (six digits after the point).     *)
(* A similarity is held in hundredths.                                      *)
(***************************************************************************)
EXTENDS Integers, Sequences, FiniteSets, TLC

\* At most MaxBooks rows are ever inserted in the service specification.
MaxBooks == 2

\* At most MaxSearchBooks rows are ever inserted in the retrieval specification.
MaxSearchBooks == 3

\* The rows of a books table read as it was found on disk.
MaxStoredRows == 2

\* The books the add and import flows may create.
MaxFlowBooks == 1

\* The books discoverCmd may create.
MaxListBooks == 2

\* The longest vector handed to cosineSimilarity and to the codec.
MaxDim == 2

\* At most MaxGuardedBooks rows are ever inserted by the guarded operations.
MaxGuardedBooks == 2

\* At most MaxRaceBooks rows are ever inserted by concurrent requests.
MaxRaceBooks == 2

Procs == {1, 2}

(***************************************************************************)
(* Strings                                                                 *)
(***************************************************************************)
Empty == << >>

\* "D", "d", "É" (U+00C9), "é" (U+00E9), "H", "h", "1", "2", "n"
Str_D == <<68>>
Str_d == <<100>>
Str_Eacute == <<201>>
Str_eacute == <<233>>
Str_H == <<72>>
Str_h == <<104>>
Str_1 == <<49>>
Str_2 == <<50>>
Str_n == <<110>>

\* SQLite's built-in LOWER(): only the ASCII letters A-Z are folded.
LowerChar(c) == IF c >= 65 /\ c <= 90 THEN c + 32 ELSE c

LOWER(s) == [i \in DOMAIN s |-> LowerChar(s[i])]

(***************************************************************************)
(* book.Book, as a caller hands it to the service (ID 0: not yet created). *)
(***************************************************************************)
Book(title, author, isbn, notes) ==
    [ID |-> 0, Title |-> title, Author |-> author, ISBN |-> isbn,
     Description |-> Empty, Genre |-> Empty, Tags |-> << >>, Notes |-> notes,
     Rating |-> 0, Status |-> "want_to_read", DateAdded |-> 0, DateRead |-> 0,
     Embedding |-> << >>]

\* Status.IsValid
IsValid(status) == status \in {"want_to_read", "reading", "read"}

\* The candidates of the service specification.
Candidates ==
    { Book(Str_D, Str_H, Empty, Empty),
      Book(Str_d, Str_h, Str_1, Empty),
      Book(Str_Eacute, Str_H, Str_1, Empty),
      Book(Str_eacute, Str_h, Empty, Empty),
      Book(Empty, Str_H, Empty, Empty),
      Book(Str_D, Empty, Str_2, Str_n) }

\* The candidate of the retrieval specification: with no author it matches
\* no stored record, so every Add of it creates a row.
SearchCandidates == { Book(Str_D, Empty, Empty, Empty) }

\* The ID field of a candidate handed to AddSkipDuplicateCheck: unset, or
\* the ID of a record read before.
CarriedIDs == { 0, 1 }

\* What the embedding provider may answer, in the service specification.
GenVectors == { <<10, 0>>, <<14, 6>> }

\* What the embedding provider may answer, in the retrieval specification.
SearchVectors == { << >>, <<10, 0>>, <<10, 10>> }

\* Query vectors and limits of the retrieval specification.
QueryVectors == { <<10, 0>>, <<14, 4>> }

Limits == { -1, 0, 1, 2 }

(***************************************************************************)
(* Vector codec                                                            *)
(***************************************************************************)
Abs(x) == IF x < 0 THEN -x ELSE x

\* fmt.Sprintf("%.2f", v): v rounded to two decimals.
FormatF_TwoDecimals(v) ==
    LET q == Abs(v) \div 100000
        r == Abs(v) % 100000
        m == (IF r > 50000 \/ (r = 50000 /\ q % 2 = 1) THEN q + 1 ELSE q) * 10000
    IN  IF v < 0 THEN -m ELSE m

\* fmt.Sprintf("%f", v): v rounded to six decimals (half to even), as the
\* number of millionths printed.
FormatF(v) ==
    LET q == Abs(v) \div 10
        r == Abs(v) % 10
        m == IF r > 5 \/ (r = 5 /\ q % 2 = 1) THEN q + 1 ELSE q
    IN  IF v < 0 THEN -m ELSE m

\* A part of a blob: the text of a number, as the millionths it prints, or a
\* text fmt.Sscanf reads no number from.
Number(m) == [ok |-> TRUE, val |-> m]
Garbage == [ok |-> FALSE, val |-> 0]

\* fmt.Sscanf(p, "%f", &v), its error dropped: the float a number's text
\* denotes; v keeps its zero when the scan fails.
ScanF(p) == IF p.ok THEN p.val * 10 ELSE 0

\* A stored embedding column: NULL, or a blob of comma-separated parts.
NullBlob == [null |-> TRUE, parts |-> << >>]

encodeEmbedding(embedding) ==
    [null |-> FALSE,
     parts |-> [i \in DOMAIN embedding |-> Number(FormatF(embedding[i]))]]

\* strings.Split(string(blob), ",") gives one empty part for the empty blob.
decodeEmbedding(blob) ==
    IF Len(blob.parts) = 0 THEN <<ScanF(Garbage)>>
    ELSE [i \in DOMAIN blob.parts |-> ScanF(blob.parts[i])]

\* len(embeddingBlob), at least: the parts, a number's text being eight bytes
\* or more and any other text one or more, and the commas between them.
RECURSIVE PartsLen(_, _)
PartsLen(parts, n) ==
    IF n = 0 THEN 0
    ELSE (IF parts[n].ok THEN 8 ELSE 1) + PartsLen(parts, n - 1)

BlobLen(blob) ==
    IF blob.null \/ Len(blob.parts) = 0 THEN 0
    ELSE PartsLen(blob.parts, Len(blob.parts)) + Len(blob.parts) - 1

(***************************************************************************)
(* State                                                                   *)
(***************************************************************************)
VARIABLES
    books,     \* the books table: rowid -> row
    nextID,    \* the next AUTOINCREMENT rowid
    op,        \* per request: the service method running (or last run)
    pc,        \* per request: the next step of that method
    b,         \* per request: the *Book argument
    gen,       \* per request: the embedding request made and its answer
    ret,       \* per request: what the method returned
    calls,     \* per request: the calls the method has made so far
    retryOf,   \* per request: the row whose failed Add this Add repeats (0: none)
    reply      \* the answer of the retrieval request being served

vars == <<books, nextID, op, pc, b, gen, ret, calls, retryOf, reply>>

(***************************************************************************)
(* SQLiteRepository                                                        *)
(***************************************************************************)
\* The column values an INSERT binds from *Book; an UPDATE binds the same
\* but for date_added.
Columns(bk) ==
    [Title |-> bk.Title, Author |-> bk.Author, ISBN |-> bk.ISBN,
     Description |-> bk.Description, Genre |-> bk.Genre, Tags |-> bk.Tags,
     Notes |-> bk.Notes, Rating |-> bk.Rating, Status |-> bk.Status,
     DateAdded |-> bk.DateAdded, DateRead |-> bk.DateRead]

\* The rowids of table t in scan order (ascending rowid).
RECURSIVE ScanOrder(_)
ScanOrder(ids) ==
    IF ids = {} THEN << >>
    ELSE LET m == CHOOSE x \in ids : \A y \in ids : x <= y
         IN  <<m>> \o ScanOrder(ids \ {m})

scanBook(id, row) ==
    [ID |-> id, Title |-> row.Title, Author |-> row.Author, ISBN |-> row.ISBN,
     Description |-> row.Description, Genre |-> row.Genre, Tags |-> row.Tags,
     Notes |-> row.Notes, Rating |-> row.Rating, Status |-> row.Status,
     DateAdded |-> row.DateAdded, DateRead |-> row.DateRead,
     Embedding |-> IF BlobLen(row.embedding) > 0
                   THEN decodeEmbedding(row.embedding) ELSE << >>]

\* scanBooks over the rows with rowid in ids, in scan order.
scanBooks(t, ids) ==
    LET o == ScanOrder(ids) IN [i \in DOMAIN o |-> scanBook(o[i], t[o[i]])]

\* The rowid of an INTEGER PRIMARY KEY column without AUTOINCREMENT: one more
\* than the largest rowid in the table.
NewRowID_MaxPlusOne(t, seq) ==
    IF DOMAIN t = {} THEN 1
    ELSE 1 + CHOOSE m \in DOMAIN t : \A i \in DOMAIN t : i <= m

\* id INTEGER PRIMARY KEY AUTOINCREMENT: the rowid an INSERT gets is one more
\* than the largest the table ever held, which sqlite_sequence keeps (seq is
\* that number plus one).
NewRowID(t, seq) == seq

\* INSERT INTO books (...): the embedding column is left NULL.
Create(t, id, bk) ==
    [i \in DOMAIN t \cup {id} |->
        IF i = id THEN Columns(bk) @@ [embedding |-> NullBlob]
        ELSE t[i]]

\* SELECT ... WHERE id = ?  (<<>>: sql.ErrNoRows)
GetByID(t, id) == IF id \in DOMAIN t THEN <<scanBook(id, t[id])>> ELSE << >>

\* ORDER BY date_added DESC: the rowids in ids by descending date_added, rows
\* of equal date_added in the order of the scan.
RECURSIVE DateOrder(_, _)
DateOrder(t, ids) ==
    IF ids = {} THEN << >>
    ELSE LET m == CHOOSE x \in ids :
                      \A y \in ids :
                          \/ t[x].DateAdded > t[y].DateAdded
                          \/ t[x].DateAdded = t[y].DateAdded /\ x <= y
         IN  <<m>> \o DateOrder(t, ids \ {m})

\* The rows with rowid in ids, scanned in that order.
scanOrdered(t, ids) ==
    LET o == DateOrder(t, ids) IN [i \in DOMAIN o |-> scanBook(o[i], t[o[i]])]

\* SELECT ... FROM books ORDER BY date_added DESC: every row.
GetAll(t) == scanOrdered(t, DOMAIN t)

\* SELECT ... FROM books WHERE status = ? ORDER BY date_added DESC
GetByStatus(t, status) == scanOrdered(t, {i \in DOMAIN t : t[i].Status = status})

\* UPDATE books SET title = ?, ... WHERE id = ?: no row matched is no error.
Update(t, bk) ==
    [i \in DOMAIN t |->
        IF i = bk.ID
        THEN [Columns(bk) EXCEPT !.DateAdded = t[i].DateAdded]
             @@ [embedding |-> t[i].embedding]
        ELSE t[i]]

\* A Delete that marks the row instead of removing it.
Delete_Soft(t, id) ==
    [i \in DOMAIN t |-> IF i = id THEN [t[i] EXCEPT !.Status = "deleted"] ELSE t[i]]

\* DELETE FROM books WHERE id = ?
Delete(t, id) == [i \in DOMAIN t \ {id} |-> t[i]]

\* UpdateEmbedding as an upsert (INSERT OR REPLACE): a row that is not there
\* is made.
UpdateEmbedding_Upsert(t, id, embedding) ==
    [i \in DOMAIN t \cup {id} |->
        IF i # id THEN t[i]
        ELSE IF id \in DOMAIN t
        THEN [t[i] EXCEPT !.embedding = encodeEmbedding(embedding)]
        ELSE Columns(Book(Empty, Empty, Empty, Empty))
             @@ [embedding |-> encodeEmbedding(embedding)]]

\* UpdateEmbedding that fills an absent embedding only (... AND embedding IS NULL).
UpdateEmbedding_OnlyIfNull(t, id, embedding) ==
    [i \in DOMAIN t |->
        IF i = id /\ t[i].embedding.null
        THEN [t[i] EXCEPT !.embedding = encodeEmbedding(embedding)]
        ELSE t[i]]

\* UPDATE books SET embedding = ? WHERE id = ?
UpdateEmbedding(t, id, embedding) ==
    [i \in DOMAIN t |->
        IF i = id THEN [t[i] EXCEPT !.embedding = encodeEmbedding(embedding)]
        ELSE t[i]]

\* SELECT ... WHERE embedding IS NOT NULL
GetAllWithEmbeddings(t) ==
    scanBooks(t, {i \in DOMAIN t : ~t[i].embedding.null})

\* The first row of a scan, LIMIT 1 (<<>>: no rows, returned as nil).
FirstRow(t, ids) ==
    IF ids = {} THEN << >> ELSE <<scanBooks(t, ids)[1]>>

FindByISBN(t, isbn) ==
    IF isbn = Empty THEN << >>
    ELSE FirstRow(t, {i \in DOMAIN t : t[i].ISBN = isbn})

FindByTitleAuthor(t, title, author) ==
    IF title = Empty \/ author = Empty THEN << >>
    ELSE FirstRow(t, {i \in DOMAIN t :
                        /\ LOWER(t[i].Title) = LOWER(title)
                        /\ LOWER(t[i].Author) = LOWER(author)})

(***************************************************************************)
(* book.Service                                                            *)
(***************************************************************************)
Str_By == <<32, 98, 121, 32>>                              \* " by "
Str_Dot == <<46, 32>>                                      \* ". "
Str_Genre == <<46, 32, 71, 101, 110, 114, 101, 58, 32>>    \* ". Genre: "
Str_Tags == <<46, 32, 84, 97, 103, 115, 58, 32>>           \* ". Tags: "
Str_Comma == <<44, 32>>                                    \* ", "
Str_Notes == <<46, 32, 78, 111, 116, 101, 115, 58, 32>>    \* ". Notes: "

RECURSIVE JoinTags(_, _)
JoinTags(tags, i) ==
    IF i > Len(tags) THEN Empty
    ELSE (IF i > 1 THEN Str_Comma ELSE Empty) \o tags[i] \o JoinTags(tags, i + 1)

buildEmbeddingText(bk) ==
    bk.Title \o Str_By \o bk.Author
    \o (IF bk.Description # Empty THEN Str_Dot \o bk.Description ELSE Empty)
    \o (IF bk.Genre # Empty THEN Str_Genre \o bk.Genre ELSE Empty)
    \o (IF Len(bk.Tags) > 0 THEN Str_Tags \o JoinTags(bk.Tags, 1) ELSE Empty)
    \o (IF bk.Notes # Empty THEN Str_Notes \o bk.Notes ELSE Empty)

\* What a method returns: nil, or an error.
Result(kind, existing, reason) ==
    [kind |-> kind, existing |-> existing, reason |-> reason]

Pending == Result("pending", << >>, "")
Ok == Result("ok", << >>, "")
DuplicateError(existing, reason) == Result("DuplicateError", existing, reason)
ProviderError == Result("ProviderError", << >>, "")
StorageFailure == Result("StorageFailure", << >>, "")

NoCalls == [create |-> 0, update |-> 0, generate |-> 0, setEmbedding |-> 0, delete |-> 0]
NoGen == [text |-> Empty, vec |-> << >>]

\* The fields of a *Book the caller chose (everything but the ID).
Fields(bk) == [bk EXCEPT !.ID = 0]

\* CheckDuplicate, lines 52-60: the lookup by ISBN, made for a non-empty ISBN.
CheckISBN(t, bk) == IF bk.ISBN # Empty THEN FindByISBN(t, bk.ISBN) ELSE << >>

\* CheckDuplicate, lines 63-71: the lookup by title and author.
CheckTitleAuthor(t, bk) ==
    IF bk.Title # Empty /\ bk.Author # Empty
    THEN FindByTitleAuthor(t, bk.Title, bk.Author) ELSE << >>

\* CheckDuplicate with its two rules in the other order.
CheckDuplicate_TitleFirst(t, bk) ==
    IF CheckTitleAuthor(t, bk) # << >>
    THEN [existing |-> CheckTitleAuthor(t, bk), reason |-> "title+author"]
    ELSE IF CheckISBN(t, bk) # << >>
    THEN [existing |-> CheckISBN(t, bk), reason |-> "ISBN"]
    ELSE [existing |-> << >>, reason |-> ""]

\* CheckDuplicate over one table: (existing, reason), existing << >> for nil.
CheckDuplicate(t, bk) ==
    IF CheckISBN(t, bk) # << >>
    THEN [existing |-> CheckISBN(t, bk), reason |-> "ISBN"]
    ELSE IF CheckTitleAuthor(t, bk) # << >>
    THEN [existing |-> CheckTitleAuthor(t, bk), reason |-> "title+author"]
    ELSE [existing |-> << >>, reason |-> ""]

\* A method returns r.
Return(p, r) ==
    /\ pc' = [pc EXCEPT ![p] = "done"]
    /\ ret' = [ret EXCEPT ![p] = r]

\* A caller starts method m with argument bk; first is its first step.
Call(p, m, bk, first) ==
    /\ op' = [op EXCEPT ![p] = m]
    /\ pc' = [pc EXCEPT ![p] = first]
    /\ b' = [b EXCEPT ![p] = bk]
    /\ gen' = [gen EXCEPT ![p] = NoGen]
    /\ ret' = [ret EXCEPT ![p] = Pending]
    /\ calls' = [calls EXCEPT ![p] = NoCalls]
    /\ UNCHANGED <<books, nextID, reply>>

\* Service.Add(ctx, c), called.
CallAdd(p, c, max) ==
    /\ pc[p] = "idle"
    /\ nextID <= max \/ CheckDuplicate(books, c).existing # << >>
    /\ Call(p, "Add", c, "checkISBN")
    /\ retryOf' = [retryOf EXCEPT ![p] = 0]

\* The caller of an Add that returned a provider error calls Add again with
\* the same candidate.
RetryAdd(p, max) ==
    /\ pc[p] = "done" /\ op[p] = "Add" /\ ret[p] = ProviderError
    /\ nextID <= max \/ CheckDuplicate(books, Fields(b[p])).existing # << >>
    /\ Call(p, "Add", Fields(b[p]), "checkISBN")
    /\ retryOf' = [retryOf EXCEPT ![p] = b[p].ID]

\* The caller is done with what the method returned.
Leave(p) ==
    /\ pc[p] = "done"
    /\ op' = [op EXCEPT ![p] = "none"]
    /\ pc' = [pc EXCEPT ![p] = "idle"]
    /\ b' = [b EXCEPT ![p] = Book(Empty, Empty, Empty, Empty)]
    /\ gen' = [gen EXCEPT ![p] = NoGen]
    /\ ret' = [ret EXCEPT ![p] = Pending]
    /\ calls' = [calls EXCEPT ![p] = NoCalls]
    /\ retryOf' = [retryOf EXCEPT ![p] = 0]
    /\ UNCHANGED <<books, nextID, reply>>

\* Add, lines 52-60: the ISBN lookup of CheckDuplicate.
AddCheckISBN(p) ==
    /\ pc[p] = "checkISBN"
    /\ LET existing == CheckISBN(books, b[p])
       IN  IF existing # << >>
           THEN Return(p, DuplicateError(existing, "ISBN"))
           ELSE /\ pc' = [pc EXCEPT ![p] = "checkTitleAuthor"]
                /\ UNCHANGED ret
    /\ UNCHANGED <<books, nextID, op, b, gen, calls, retryOf, reply>>

\* AddCheckTitleAuthor without lines 88-90: a match found does not stop the Add.
AddCheckTitleAuthor_Unguarded(p) ==
    /\ pc[p] = "checkTitleAuthor"
    /\ pc' = [pc EXCEPT ![p] = "create"]
    /\ UNCHANGED <<books, nextID, op, b, gen, ret, calls, retryOf, reply>>

\* Add, lines 62-73 and 85-90: the title+author lookup of CheckDuplicate.
AddCheckTitleAuthor(p) ==
    /\ pc[p] = "checkTitleAuthor"
    /\ LET existing == CheckTitleAuthor(books, b[p])
       IN  IF existing # << >>
           THEN Return(p, DuplicateError(existing, "title+author"))
           ELSE /\ pc' = [pc EXCEPT ![p] = "create"]
                /\ UNCHANGED ret
    /\ UNCHANGED <<books, nextID, op, b, gen, calls, retryOf, reply>>

\* AddSkipDuplicateCheck that starts with the lookups of Add.
CallAddSkipDuplicateCheck_Guarded(p, c, max) ==
    /\ pc[p] = "idle"
    /\ nextID <= max
    /\ Call(p, "AddSkipDuplicateCheck", c, "checkISBN")
    /\ retryOf' = [retryOf EXCEPT ![p] = 0]

\* Service.AddSkipDuplicateCheck(ctx, c), called.
CallAddSkipDuplicateCheck(p, c, max) ==
    /\ pc[p] = "idle"
    /\ nextID <= max
    /\ Call(p, "AddSkipDuplicateCheck", c, "create")
    /\ retryOf' = [retryOf EXCEPT ![p] = 0]

\* repo.Create: the row is inserted and the new rowid written to b.ID.
DoCreate(p, max) ==
    /\ pc[p] = "create"
    /\ nextID <= max
    /\ LET id == NewRowID(books, nextID)
       IN  /\ books' = Create(books, id, b[p])
           /\ b' = [b EXCEPT ![p].ID = id]
           /\ nextID' = IF id >= nextID THEN id + 1 ELSE nextID
    /\ calls' = [calls EXCEPT ![p].create = @ + 1]
    /\ pc' = [pc EXCEPT ![p] = "generate"]
    /\ UNCHANGED <<op, gen, ret, retryOf, reply>>

\* embedder.Generate answers v for the text built from b.
DoGenerate(p, v) ==
    /\ pc[p] = "generate"
    /\ gen' = [gen EXCEPT ![p] = [text |-> buildEmbeddingText(b[p]), vec |-> v]]
    /\ calls' = [calls EXCEPT ![p].generate = @ + 1]
    /\ pc' = [pc EXCEPT ![p] = "setEmbedding"]
    /\ UNCHANGED <<books, nextID, op, b, ret, retryOf, reply>>

\* GenerateFail that undoes the Create before it returns the error.
GenerateFail_Rollback(p) ==
    /\ pc[p] = "generate"
    /\ calls' = [calls EXCEPT ![p].generate = @ + 1]
    /\ Return(p, ProviderError)
    /\ books' = Delete(books, b[p].ID)
    /\ UNCHANGED <<nextID, op, b, gen, retryOf, reply>>

\* embedder.Generate fails (or the context is cancelled during it).
GenerateFail(p) ==
    /\ pc[p] = "generate"
    /\ calls' = [calls EXCEPT ![p].generate = @ + 1]
    /\ Return(p, ProviderError)
    /\ UNCHANGED <<books, nextID, op, b, gen, retryOf, reply>>

\* repo.UpdateEmbedding(ctx, b.ID, embedding), then return nil.
DoUpdateEmbedding(p) ==
    /\ pc[p] = "setEmbedding"
    /\ books' = UpdateEmbedding(books, b[p].ID, gen[p].vec)
    /\ calls' = [calls EXCEPT ![p].setEmbedding = @ + 1]
    /\ Return(p, Ok)
    /\ UNCHANGED <<nextID, op, b, gen, retryOf, reply>>

\* Service.Update(ctx, bk), called with any ID.
CallUpdate(p, c, id) ==
    /\ pc[p] = "idle"
    /\ Call(p, "Update", [c EXCEPT !.ID = id], "update")
    /\ retryOf' = [retryOf EXCEPT ![p] = 0]

\* repo.Update(ctx, b)
DoUpdate(p) ==
    /\ pc[p] = "update"
    /\ books' = Update(books, b[p])
    /\ calls' = [calls EXCEPT ![p].update = @ + 1]
    /\ pc' = [pc EXCEPT ![p] = "generate"]
    /\ UNCHANGED <<nextID, op, b, gen, ret, retryOf, reply>>

\* Service.Delete(ctx, id), called.
CallDelete(p, id) ==
    /\ pc[p] = "idle"
    /\ Call(p, "Delete", [Book(Empty, Empty, Empty, Empty) EXCEPT !.ID = id], "delete")
    /\ retryOf' = [retryOf EXCEPT ![p] = 0]

\* repo.Delete(ctx, id)
DoDelete(p) ==
    /\ pc[p] = "delete"
    /\ books' = Delete(books, b[p].ID)
    /\ calls' = [calls EXCEPT ![p].delete = @ + 1]
    /\ Return(p, Ok)
    /\ UNCHANGED <<nextID, op, b, gen, retryOf, reply>>

\* What IsDuplicate returns: existing != nil.  dropped tells that the error
\* of CheckDuplicate, which IsDuplicate assigns to _, was not nil.
Bool(value, dropped) ==
    Result(IF value THEN "true" ELSE "false", << >>,
           IF dropped THEN "error dropped" ELSE "")

\* Service.IsDuplicate(ctx, c), every lookup of CheckDuplicate answering.
IsDuplicate(p, c) ==
    /\ pc[p] = "idle"
    /\ op' = [op EXCEPT ![p] = "IsDuplicate"]
    /\ b' = [b EXCEPT ![p] = c]
    /\ Return(p, Bool(CheckDuplicate(books, c).existing # << >>, FALSE))
    /\ UNCHANGED <<books, nextID, gen, calls, retryOf, reply>>

\* Service.IsDuplicate(ctx, c) when a lookup of CheckDuplicate fails, the one
\* by ISBN or, after it found nothing, the one by title and author:
\* CheckDuplicate returns nil, "", err and IsDuplicate returns nil != nil.
IsDuplicateFail(p, c) ==
    /\ pc[p] = "idle"
    /\ \/ c.ISBN # Empty
       \/ CheckISBN(books, c) = << >> /\ c.Title # Empty /\ c.Author # Empty
    /\ op' = [op EXCEPT ![p] = "IsDuplicate"]
    /\ b' = [b EXCEPT ![p] = c]
    /\ Return(p, Bool(FALSE, TRUE))
    /\ UNCHANGED <<books, nextID, gen, calls, retryOf, reply>>

\* The next step is a statement the store runs.
AtStoreCall(p) ==
    \/ pc[p] = "checkISBN" /\ b[p].ISBN # Empty
    \/ pc[p] = "checkTitleAuthor" /\ b[p].Title # Empty /\ b[p].Author # Empty
    \/ pc[p] \in {"create", "update", "setEmbedding", "delete"}

\* A store statement fails (I/O error, cancelled context): nothing is written
\* and the method returns the error.
StoreFail(p) ==
    /\ AtStoreCall(p)
    /\ Return(p, StorageFailure)
    /\ UNCHANGED <<books, nextID, op, b, gen, calls, retryOf, reply>>


(***************************************************************************)
(* The callers of the service: web handlers and CLI commands               *)
(***************************************************************************)
StatusRead == "read"

\* What a form or a flag may give for the title, the status and the rating
\* (an empty status or rating: not given), and what time.Now() may return.
FormTitles == { Str_D, Empty }
FormStatuses == { "", "reading", "read", "lost" }
FormRatings == { << >>, <<6>> }
Times == { 1, 2 }

ValidationFailure == Result("ValidationFailure", << >>, "")
NoRows == Result("NoRows", << >>, "")

\* A command or handler returns r without calling Add or Update.
Refuse(p, flow, r) ==
    /\ op' = [op EXCEPT ![p] = flow]
    /\ Return(p, r)
    /\ UNCHANGED <<books, nextID, b, gen, calls, retryOf, reply>>

\* The stamp without its IsZero test: a book in status read is stamped anew.
StampRead_Always(bk, now) ==
    IF bk.Status = StatusRead THEN [bk EXCEPT !.DateRead = now] ELSE bk

\* if status == read [&& b.DateRead.IsZero()] { b.DateRead = time.Now() }
StampRead(bk, now) ==
    IF bk.Status = StatusRead /\ bk.DateRead = 0 THEN [bk EXCEPT !.DateRead = now]
    ELSE bk

\* b.Rating, _ = strconv.Atoi(rating), for a rating given.
WithRating(bk, rating) ==
    IF rating = << >> THEN bk ELSE [bk EXCEPT !.Rating = rating[1]]

\* Server.handleAdd, POST: the form is handed to Add as it is.
handleAdd(p, title, status, rating, now, max) ==
    /\ pc[p] = "idle"
    /\ nextID <= max
    /\ Call(p, "Add",
            StampRead(WithRating([Book(title, Str_H, Empty, Empty)
                                     EXCEPT !.Status = status, !.DateAdded = now],
                                 rating), now),
            "checkISBN")
    /\ retryOf' = [retryOf EXCEPT ![p] = 0]

\* addCmd: title and author are required and the status must be valid; the
\* rating flag is taken as given (0 when not given).
addCmd(p, title, status, rating, now, max) ==
    /\ pc[p] = "idle"
    /\ nextID <= max
    /\ LET bookStatus == IF status = "" THEN "want_to_read" ELSE status
       IN  IF title = Empty \/ ~IsValid(bookStatus)
           THEN Refuse(p, "addCmd", ValidationFailure)
           ELSE /\ Call(p, "Add",
                        StampRead(WithRating([Book(title, Str_H, Empty, Empty)
                                                 EXCEPT !.Status = bookStatus,
                                                        !.DateAdded = now],
                                             rating), now),
                        "checkISBN")
                /\ retryOf' = [retryOf EXCEPT ![p] = 0]

\* Server.importCSV, one row: the row is handed to Add as it is, without a
\* completion date.
importCSV(p, title, status, rating, now, max) ==
    /\ pc[p] = "idle"
    /\ nextID <= max
    /\ Call(p, "Add",
            [Book(title, Str_H, Empty, Empty)
                EXCEPT !.Status = status,
                       !.Rating = IF rating = << >> THEN 0 ELSE rating[1],
                       !.DateAdded = now],
            "checkISBN")
    /\ retryOf' = [retryOf EXCEPT ![p] = 0]

\* updateCmd: Get, then the flags given are applied (a status must be valid)
\* and the book is handed to Update.
updateCmd(p, id, status, rating, now) ==
    /\ pc[p] = "idle"
    /\ IF GetByID(books, id) = << >> THEN Refuse(p, "updateCmd", NoRows)
       ELSE IF status # "" /\ ~IsValid(status)
       THEN Refuse(p, "updateCmd", ValidationFailure)
       ELSE LET got == GetByID(books, id)[1]
                set == IF status = "" THEN got
                       ELSE StampRead([got EXCEPT !.Status = status], now)
            IN  /\ Call(p, "Update", WithRating(set, rating), "update")
                /\ retryOf' = [retryOf EXCEPT ![p] = 0]

\* Server.handleBookDetail, POST: Get, then the status and rating given are
\* applied and the book is handed to Update.
handleBookDetail(p, id, status, rating, now) ==
    /\ pc[p] = "idle"
    /\ IF GetByID(books, id) = << >> THEN Refuse(p, "handleBookDetail", NoRows)
       ELSE LET got == GetByID(books, id)[1]
                set == IF status = "" THEN got
                       ELSE StampRead([got EXCEPT !.Status = status], now)
            IN  /\ Call(p, "Update", WithRating(set, rating), "update")
                /\ retryOf' = [retryOf EXCEPT ![p] = 0]

\* Server.handleEdit, POST: Get, then every field is taken from the form
\* (the status even when empty) and the book is handed to Update.
handleEdit(p, id, title, status, rating, now) ==
    /\ pc[p] = "idle"
    /\ IF GetByID(books, id) = << >> THEN Refuse(p, "handleEdit", NoRows)
       ELSE LET got == GetByID(books, id)[1]
                set == [got EXCEPT !.Title = title, !.Status = status]
            IN  /\ Call(p, "Update", StampRead(WithRating(set, rating), now), "update")
                /\ retryOf' = [retryOf EXCEPT ![p] = 0]

(***************************************************************************)
(* search.Engine                                                           *)
(***************************************************************************)
RECURSIVE Sum(_, _)
Sum(f, n) == IF n = 0 THEN 0 ELSE f[n] + Sum(f, n - 1)

\* The integer square root.
ISqrt(n) == CHOOSE r \in 0..100 : r * r <= n /\ n < (r + 1) * (r + 1)

\* cosineSimilarity without its length test: the loop runs over the
\* components both vectors have.
cosineSimilarity_Prefix(a, b2) ==
    LET n == IF Len(a) < Len(b2) THEN Len(a) ELSE Len(b2)
        dotProduct == Sum([i \in 1..n |-> a[i] * b2[i]], n)
        normA == Sum([i \in 1..n |-> a[i] * a[i]], n)
        normB == Sum([i \in 1..n |-> b2[i] * b2[i]], n)
    IN  IF normA = 0 \/ normB = 0 THEN 0
        ELSE LET m == ISqrt((10000 * dotProduct * dotProduct) \div (normA * normB))
             IN  IF dotProduct < 0 THEN -m ELSE m

\* dotProduct / (sqrt(normA) * sqrt(normB)), in hundredths (truncated).
cosineSimilarity(a, b2) ==
    IF Len(a) # Len(b2) THEN 0
    ELSE LET dotProduct == Sum([i \in DOMAIN a |-> a[i] * b2[i]], Len(a))
             normA == Sum([i \in DOMAIN a |-> a[i] * a[i]], Len(a))
             normB == Sum([i \in DOMAIN a |-> b2[i] * b2[i]], Len(a))
         IN  IF normA = 0 \/ normB = 0 THEN 0
             ELSE LET m == ISqrt((10000 * dotProduct * dotProduct) \div (normA * normB))
                  IN  IF dotProduct < 0 THEN -m ELSE m

\* Less with the comparison turned round.
Less_Ascending(x, y) == x.Similarity < y.Similarity

\* The less function handed to sort.Slice.
Less(x, y) == x.Similarity > y.Similarity

Swap(s, i, j) == [s EXCEPT ![i] = s[j], ![j] = s[i]]

\* sort.Slice on at most 12 elements is an insertion sort:
\* for i := 1; i < n; i++ { for j := i; j > 0 && less(j, j-1); j-- { swap } }
RECURSIVE InsertDown(_, _)
InsertDown(s, j) ==
    IF j > 1 /\ Less(s[j], s[j - 1]) THEN InsertDown(Swap(s, j, j - 1), j - 1) ELSE s

RECURSIVE SortSlice(_, _)
SortSlice(s, i) == IF i > Len(s) THEN s ELSE SortSlice(InsertDown(s, i), i + 1)

\* sort.Slice sorts a slice of at most maxInsertion elements by insertion.
maxInsertion == 12

\* insertionSort over the positions lo..hi of s.
RECURSIVE InsertDownTo(_, _, _)
InsertDownTo(s, j, lo) ==
    IF j > lo /\ Less(s[j], s[j - 1]) THEN InsertDownTo(Swap(s, j, j - 1), j - 1, lo)
    ELSE s

RECURSIVE insertionSort(_, _, _, _)
insertionSort(s, lo, hi, i) ==
    IF i > hi THEN s ELSE insertionSort(InsertDownTo(s, i, lo), lo, hi, i + 1)

\* order2: the positions x, y in the order of their elements, and whether
\* they were swapped.
order2(s, x, y) ==
    IF Less(s[y], s[x]) THEN [lo |-> y, hi |-> x, swaps |-> 1]
    ELSE [lo |-> x, hi |-> y, swaps |-> 0]

\* choosePivot for a slice of 8 to 49 elements: the median of the elements
\* at l/4, l/4*2 and l/4*3, and the number of swaps made to find it.
choosePivot(s) ==
    LET q == Len(s) \div 4
        o1 == order2(s, q + 1, 2 * q + 1)
        o2 == order2(s, o1.hi, 3 * q + 1)
        o3 == order2(s, o1.lo, o2.lo)
    IN  [pivot |-> o3.hi, swaps |-> o1.swaps + o2.swaps + o3.swaps]

\* partialInsertionSort on fewer than 50 elements: true when no element is
\* less than the one before it; otherwise it gives up, moving nothing.
partialInsertionSort(s) == \A i \in 2..Len(s) : ~Less(s[i], s[i - 1])

\* for i <= j && less(i, a) { i++ }
RECURSIVE Advance(_, _, _)
Advance(s, i, j) == IF i <= j /\ Less(s[i], s[1]) THEN Advance(s, i + 1, j) ELSE i

\* for i <= j && !less(j, a) { j-- }
RECURSIVE Retreat(_, _, _)
Retreat(s, i, j) == IF i <= j /\ ~Less(s[j], s[1]) THEN Retreat(s, i, j - 1) ELSE j

\* The loop of partition: the elements less than the pivot, which is at
\* position 1, are moved before the others; then the pivot is put between.
RECURSIVE PartitionLoop(_, _, _)
PartitionLoop(s, i, j) ==
    LET i2 == Advance(s, i, j)
        j2 == Retreat(s, i2, j)
    IN  IF i2 > j2 THEN [data |-> Swap(s, j2, 1), mid |-> j2]
        ELSE PartitionLoop(Swap(s, i2, j2), i2 + 1, j2 - 1)

\* partition of the whole slice around the element at position pivot.
partition(s, pivot) == PartitionLoop(Swap(s, 1, pivot), 2, Len(s))

\* sort.Slice(results, less), that is pdqsort_func, on a slice of at most
\* maxInsertion + 1 elements: a longer slice than maxInsertion is left alone
\* when the pivot was found without a swap and the slice is sorted, and is
\* otherwise partitioned, each side (of at most maxInsertion elements) then
\* sorted by insertion.
pdqsort_func(s) ==
    IF Len(s) <= maxInsertion THEN SortSlice(s, 2)
    ELSE LET c == choosePivot(s)
         IN  IF c.swaps = 0 /\ partialInsertionSort(s) THEN s
             ELSE LET pt == partition(s, c.pivot)
                  IN  insertionSort(insertionSort(pt.data, 1, pt.mid - 1, 2),
                                    pt.mid + 1, Len(s), pt.mid + 2)

\* The truncation with limit >= 0 as its test.
Truncate_NonNegative(results, limit) ==
    IF limit >= 0 /\ Len(results) > limit THEN SubSeq(results, 1, limit) ELSE results

\* if limit > 0 && len(results) > limit { results = results[:limit] }
Truncate(results, limit) ==
    IF limit > 0 /\ Len(results) > limit THEN SubSeq(results, 1, limit) ELSE results

\* The loop that scores every book against vector v, skipping book `skip`
\* and the books without an embedding.
RECURSIVE Score(_, _, _, _)
Score(bks, v, skip, i) ==
    IF i > Len(bks) THEN << >>
    ELSE (IF bks[i].ID = skip \/ Len(bks[i].Embedding) = 0 THEN << >>
          ELSE <<[Book |-> bks[i],
                  Similarity |-> cosineSimilarity(v, bks[i].Embedding)]>>)
         \o Score(bks, v, skip, i + 1)

\* The scoring loop of Search without its len(b.Embedding) == 0 test.
RECURSIVE ScoreAll(_, _, _)
ScoreAll(bks, v, i) ==
    IF i > Len(bks) THEN << >>
    ELSE <<[Book |-> bks[i], Similarity |-> cosineSimilarity(v, bks[i].Embedding)]>>
         \o ScoreAll(bks, v, i + 1)

\* Search without lines 44-46.
SearchResults_KeepEmpty(t, queryEmbedding, limit) ==
    Truncate(pdqsort_func(ScoreAll(GetAllWithEmbeddings(t), queryEmbedding, 1)), limit)

\* Engine.Search, once the provider answered queryEmbedding.
SearchResults(t, queryEmbedding, limit) ==
    Truncate(pdqsort_func(Score(GetAllWithEmbeddings(t), queryEmbedding, 0, 1)), limit)

\* FindSimilar without the b.ID == bookID test of line 85.
FindSimilarResults_KeepSeed(t, bookID, limit) ==
    LET bks == GetAllWithEmbeddings(t)
        at == {i \in DOMAIN bks : bks[i].ID = bookID}
    IN  IF at = {} THEN << >>
        ELSE LET targetBook == bks[CHOOSE i \in at : \A j \in at : i <= j]
             IN  IF Len(targetBook.Embedding) = 0 THEN << >>
                 ELSE Truncate(pdqsort_func(Score(bks, targetBook.Embedding, 0, 1)),
                               limit)

\* FindSimilar without the test of line 79: a seed that is missing or has no
\* embedding is compared as the empty vector.
FindSimilarResults_NoTargetTest(t, bookID, limit) ==
    LET bks == GetAllWithEmbeddings(t)
        at == {i \in DOMAIN bks : bks[i].ID = bookID}
        target == IF at = {} THEN << >>
                  ELSE bks[CHOOSE i \in at : \A j \in at : i <= j].Embedding
    IN  Truncate(pdqsort_func(Score(bks, target, bookID, 1)), limit)

\* Engine.FindSimilar
FindSimilarResults(t, bookID, limit) ==
    LET bks == GetAllWithEmbeddings(t)
        at == {i \in DOMAIN bks : bks[i].ID = bookID}
    IN  IF at = {} THEN << >>
        ELSE LET targetBook == bks[CHOOSE i \in at : \A j \in at : i <= j]
             IN  IF Len(targetBook.Embedding) = 0 THEN << >>
                 ELSE Truncate(pdqsort_func(Score(bks, targetBook.Embedding, bookID, 1)),
                               limit)

\* The answer of the retrieval request being served; none when idle.
NoReply == [op |-> "none", query |-> << >>, seed |-> 0, limit |-> 0,
            err |-> FALSE, results |-> << >>]

\* Engine.Search(ctx, query, limit): the provider answers q for the query.
Search(q, limit) ==
    /\ reply = NoReply
    /\ reply' = [op |-> "Search", query |-> q, seed |-> 0, limit |-> limit,
                 err |-> FALSE, results |-> SearchResults(books, q, limit)]
    /\ UNCHANGED <<books, nextID, op, pc, b, gen, ret, calls, retryOf>>

\* Engine.Search when the provider (or the store) fails: nil, err.
SearchFail ==
    /\ reply = NoReply
    /\ reply' = [op |-> "Search", query |-> << >>, seed |-> 0, limit |-> 0,
                 err |-> TRUE, results |-> << >>]
    /\ UNCHANGED <<books, nextID, op, pc, b, gen, ret, calls, retryOf>>

\* Engine.FindSimilar(ctx, bookID, limit)
FindSimilar(bookID, limit) ==
    /\ reply = NoReply
    /\ reply' = [op |-> "FindSimilar", query |-> << >>, seed |-> bookID,
                 limit |-> limit, err |-> FALSE,
                 results |-> FindSimilarResults(books, bookID, limit)]
    /\ UNCHANGED <<books, nextID, op, pc, b, gen, ret, calls, retryOf>>

\* The answer is delivered to the caller.
Respond ==
    /\ reply # NoReply
    /\ reply' = NoReply
    /\ UNCHANGED <<books, nextID, op, pc, b, gen, ret, calls, retryOf>>

(***************************************************************************)
(* Specifications                                                          *)
(***************************************************************************)
Init ==
    /\ books = << >>
    /\ nextID = 1
    /\ op = [p \in Procs |-> "none"]
    /\ pc = [p \in Procs |-> "idle"]
    /\ b = [p \in Procs |-> Book(Empty, Empty, Empty, Empty)]
    /\ gen = [p \in Procs |-> NoGen]
    /\ ret = [p \in Procs |-> Pending]
    /\ calls = [p \in Procs |-> NoCalls]
    /\ retryOf = [p \in Procs |-> 0]
    /\ reply = NoReply

\* The catalog service, one request at a time.
Next ==
    \/ \E c \in Candidates : CallAdd(1, c, MaxBooks)
    \/ RetryAdd(1, MaxBooks)
    \/ Leave(1)
    \/ AddCheckISBN(1)
    \/ AddCheckTitleAuthor(1)
    \/ \E c \in Candidates, id \in CarriedIDs :
          CallAddSkipDuplicateCheck(1, [c EXCEPT !.ID = id], MaxBooks)
    \/ DoCreate(1, MaxBooks)
    \/ \E v \in GenVectors : DoGenerate(1, v)
    \/ GenerateFail(1)
    \/ DoUpdateEmbedding(1)
    \/ \E c \in Candidates, id \in 1..MaxBooks : CallUpdate(1, c, id)
    \/ DoUpdate(1)
    \/ \E id \in 1..MaxBooks : CallDelete(1, id)
    \/ DoDelete(1)
    \/ StoreFail(1)
    \/ \E c \in Candidates : IsDuplicate(1, c) \/ IsDuplicateFail(1, c)

Spec == Init /\ [][Next]_vars

\* A catalog step of the retrieval specification.
CatalogStep ==
    \/ \E c \in SearchCandidates : CallAdd(1, c, MaxSearchBooks)
    \/ RetryAdd(1, MaxSearchBooks)
    \/ Leave(1)
    \/ AddCheckISBN(1)
    \/ AddCheckTitleAuthor(1)
    \/ \E c \in SearchCandidates : CallAddSkipDuplicateCheck(1, c, MaxSearchBooks)
    \/ DoCreate(1, MaxSearchBooks)
    \/ \E v \in SearchVectors : DoGenerate(1, v)
    \/ GenerateFail(1)
    \/ DoUpdateEmbedding(1)
    \/ \E c \in SearchCandidates, id \in 1..MaxSearchBooks : CallUpdate(1, c, id)
    \/ DoUpdate(1)
    \/ \E id \in 1..MaxSearchBooks : CallDelete(1, id)
    \/ DoDelete(1)

\* The retrieval engine over a catalog that one request at a time changes.
\* A retrieval request reads the table in one SELECT; its answer is delivered
\* before the next catalog step.
NextSearch ==
    \/ reply = NoReply /\ CatalogStep
    \/ \E q \in QueryVectors, limit \in Limits : Search(q, limit)
    \/ SearchFail
    \/ \E id \in 1..MaxSearchBooks, limit \in Limits : FindSimilar(id, limit)
    \/ Respond

SpecSearch == Init /\ [][NextSearch]_vars

\* What the embedding provider may answer, in the specification of the flows.
FlowVectors == { <<10, 0>> }

\* The add, import, edit and update flows, one at a time, over the service.
NextFlows ==
    \/ \E title \in FormTitles, status \in FormStatuses, rating \in FormRatings,
          now \in Times :
          \/ handleAdd(1, title, status, rating, now, MaxFlowBooks)
          \/ addCmd(1, title, status, rating, now, MaxFlowBooks)
          \/ importCSV(1, title, status, rating, now, MaxFlowBooks)
    \/ \E id \in 1..MaxFlowBooks, status \in FormStatuses, rating \in FormRatings,
          now \in Times :
          \/ updateCmd(1, id, status, rating, now)
          \/ handleBookDetail(1, id, status, rating, now)
          \/ handleEdit(1, id, Str_D, status, rating, now)
    \/ Leave(1)
    \/ AddCheckISBN(1)
    \/ AddCheckTitleAuthor(1)
    \/ DoCreate(1, MaxFlowBooks)
    \/ \E v \in FlowVectors : DoGenerate(1, v)
    \/ GenerateFail(1)
    \/ DoUpdateEmbedding(1)
    \/ DoUpdate(1)

SpecFlows == Init /\ [][NextFlows]_vars

\* The candidates of concurrent requests: the two match each other by ISBN
\* and, case-insensitively, by title and author, and their texts differ.
RaceCandidates ==
    { Book(Str_D, Str_H, Str_1, Empty),
      Book(Str_d, Str_h, Str_1, Empty) }

\* An embedding provider that answers by the text alone (the texts of the
\* candidates get different vectors, each held by six decimals).
Provider(text) == <<10 * Len(text), 10 * (text[1] % 10)>>

\* A step of request p of the service: a guarded Add, an Update or a Delete.
RequestStep(p, cands, max) ==
    \/ \E c \in cands : CallAdd(p, c, max)
    \/ AddCheckISBN(p)
    \/ AddCheckTitleAuthor(p)
    \/ DoCreate(p, max)
    \/ DoGenerate(p, Provider(buildEmbeddingText(b[p])))
    \/ GenerateFail(p)
    \/ DoUpdateEmbedding(p)
    \/ \E c \in cands, id \in 1..max : CallUpdate(p, c, id)
    \/ DoUpdate(p)
    \/ \E id \in 1..max : CallDelete(p, id)
    \/ DoDelete(p)
    \/ Leave(p)

\* Two requests served at once: each statement of the store is one step, and
\* the steps of the two requests interleave in any order.
NextRace == \E p \in Procs : RequestStep(p, RaceCandidates, MaxRaceBooks)

SpecRace == Init /\ [][NextRace]_vars

\* The candidates of the guarded operations: the two that match each other
\* and one that matches neither.
GuardedCandidates == RaceCandidates \cup { Book(Str_n, Str_H, Str_2, Empty) }

\* Guarded Adds, Updates and Deletes, one request at a time.
NextGuarded == RequestStep(1, GuardedCandidates, MaxGuardedBooks)

SpecGuarded == Init /\ [][NextGuarded]_vars

\* The embedding columns a books file may hold: NULL, the empty blob, an
\* encoded vector, a text that is no number, a vector with such a text in it.
StoredBlobs ==
    { NullBlob,
      encodeEmbedding(<< >>),
      encodeEmbedding(<<10, 0>>),
      [null |-> FALSE, parts |-> <<Garbage>>],
      [null |-> FALSE, parts |-> <<Number(1), Garbage>>] }

\* A row of such a file.
StoredRow(blob) ==
    Columns(Book(Str_D, Str_H, Empty, Empty)) @@ [embedding |-> blob]

\* NewSQLiteRepository over an existing file: the table is as it was stored.
InitStored ==
    /\ \E n \in 1..MaxStoredRows :
          /\ books \in [1..n -> {StoredRow(blob) : blob \in StoredBlobs}]
          /\ nextID = n + 1
    /\ op = [p \in Procs |-> "none"]
    /\ pc = [p \in Procs |-> "idle"]
    /\ b = [p \in Procs |-> Book(Empty, Empty, Empty, Empty)]
    /\ gen = [p \in Procs |-> NoGen]
    /\ ret = [p \in Procs |-> Pending]
    /\ calls = [p \in Procs |-> NoCalls]
    /\ retryOf = [p \in Procs |-> 0]
    /\ reply = NoReply

\* The books of a read, as an answer.
AsResults(bks) == [i \in DOMAIN bks |-> [Book |-> bks[i], Similarity |-> 0]]

\* Service.Get(ctx, id): the error of GetByID when no row has the id.
Get(id) ==
    /\ reply = NoReply
    /\ reply' = [op |-> "Get", query |-> << >>, seed |-> id, limit |-> 0,
                 err |-> GetByID(books, id) = << >>,
                 results |-> AsResults(GetByID(books, id))]
    /\ UNCHANGED <<books, nextID, op, pc, b, gen, ret, calls, retryOf>>

\* Service.List(ctx)
List ==
    /\ reply = NoReply
    /\ reply' = [op |-> "List", query |-> << >>, seed |-> 0, limit |-> 0,
                 err |-> FALSE, results |-> AsResults(GetAll(books))]
    /\ UNCHANGED <<books, nextID, op, pc, b, gen, ret, calls, retryOf>>

\* Service.ListByStatus(ctx, status)
ListByStatus(status) ==
    /\ reply = NoReply
    /\ reply' = [op |-> "ListByStatus", query |-> <<status>>, seed |-> 0, limit |-> 0,
                 err |-> FALSE, results |-> AsResults(GetByStatus(books, status))]
    /\ UNCHANGED <<books, nextID, op, pc, b, gen, ret, calls, retryOf>>

\* The reads of a stored table.
NextStored ==
    \/ \E id \in 1..MaxStoredRows : Get(id)
    \/ List
    \/ \E q \in QueryVectors, limit \in Limits : Search(q, limit)
    \/ \E id \in 1..MaxStoredRows, limit \in Limits : FindSimilar(id, limit)
    \/ Respond

SpecStored == InitStored /\ [][NextStored]_vars

\* The books OpenLibraryClient.Search returned to discoverCmd, in the order
\* it lists them: each was given time.Now() when it was appended.
ScrapedBooks ==
    << [Book(Str_D, Str_H, Empty, Empty) EXCEPT !.DateAdded = 1],
       [Book(Str_Eacute, Str_H, Empty, Empty) EXCEPT !.DateAdded = 2] >>

\* discoverCmd: the user enters the numbers of the books to add, in any
\* order, and each is handed to Add.
discoverCmd(p, num, max) ==
    /\ num \in DOMAIN ScrapedBooks
    /\ CallAdd(p, ScrapedBooks[num], max)

\* The catalog changed by discoverCmd and by status changes, one request at
\* a time, and listed.
NextList ==
    \/ /\ reply = NoReply
       /\ \/ \E num \in 1..MaxListBooks : discoverCmd(1, num, MaxListBooks)
          \/ AddCheckISBN(1)
          \/ AddCheckTitleAuthor(1)
          \/ DoCreate(1, MaxListBooks)
          \/ \E v \in FlowVectors : DoGenerate(1, v)
          \/ GenerateFail(1)
          \/ DoUpdateEmbedding(1)
          \/ \E id \in 1..MaxListBooks, now \in Times :
                handleBookDetail(1, id, StatusRead, << >>, now)
          \/ DoUpdate(1)
          \/ Leave(1)
    \/ List
    \/ \E status \in {"want_to_read", StatusRead} : ListByStatus(status)
    \/ Respond

SpecList == Init /\ [][NextList]_vars

\* The vectors of at most n components drawn from set S.
Vectors(S, n) == UNION {[1..k -> S] : k \in 0..n}

\* The components of the vectors handed to cosineSimilarity and to the codec
\* (ticks of 1e-7).
CosineComponents == { -10, 0, 10 }
CodecComponents == { -15, 0, 4, 5 }

\* cosineSimilarity(a, b), called.
Cosine(a, b2) ==
    /\ reply = NoReply
    /\ reply' = [op |-> "cosineSimilarity", query |-> a, seed |-> 0, limit |-> 0,
                 err |-> FALSE,
                 results |-> <<[Book |-> [Book(Empty, Empty, Empty, Empty)
                                            EXCEPT !.Embedding = b2],
                                Similarity |-> cosineSimilarity(a, b2)]>>]
    /\ UNCHANGED <<books, nextID, op, pc, b, gen, ret, calls, retryOf>>

\* decodeEmbedding(encodeEmbedding(v)), called.
Codec(v) ==
    /\ reply = NoReply
    /\ reply' = [op |-> "codec", query |-> v, seed |-> 0, limit |-> 0,
                 err |-> FALSE,
                 results |-> <<[Book |-> [Book(Empty, Empty, Empty, Empty)
                                            EXCEPT !.Embedding =
                                               decodeEmbedding(encodeEmbedding(v))],
                                Similarity |-> 0]>>]
    /\ UNCHANGED <<books, nextID, op, pc, b, gen, ret, calls, retryOf>>

\* The functions on vectors, applied to vectors of every length up to MaxDim.
NextVectors ==
    \/ \E a, b2 \in Vectors(CosineComponents, MaxDim) : Cosine(a, b2)
    \/ \E v \in Vectors(CodecComponents, MaxDim) : Codec(v)
    \/ Respond

SpecVectors == Init /\ [][NextVectors]_vars

\* The rows of a table large enough for sort.Slice not to sort its scan by
\* insertion.
ScanRows == maxInsertion + 1

\* The embedding columns of such a table.
ScanBlobs == { encodeEmbedding(<<10, 0>>), encodeEmbedding(<<10, 10>>) }

\* NewSQLiteRepository over an existing file of ScanRows records, each with
\* an embedding.
InitScan ==
    /\ books \in [1..ScanRows -> {StoredRow(blob) : blob \in ScanBlobs}]
    /\ nextID = ScanRows + 1
    /\ op = [p \in Procs |-> "none"]
    /\ pc = [p \in Procs |-> "idle"]
    /\ b = [p \in Procs |-> Book(Empty, Empty, Empty, Empty)]
    /\ gen = [p \in Procs |-> NoGen]
    /\ ret = [p \in Procs |-> Pending]
    /\ calls = [p \in Procs |-> NoCalls]
    /\ retryOf = [p \in Procs |-> 0]
    /\ reply = NoReply

\* The retrieval requests over such a table.
NextScan ==
    \/ \E q \in QueryVectors : Search(q, 0)
    \/ \E id \in {1, ScanRows} : FindSimilar(id, 0)
    \/ Respond

SpecScan == InitScan /\ [][NextScan]_vars

(***************************************************************************)
(* Claims about the catalog service (specification Spec)                   *)
(***************************************************************************)
Done(p) == pc[p] = "done"

\* C1: an Add whose CheckDuplicate finds a matching record returns a
\* DuplicateError carrying that record and the reason, having made no
\* Create, no embedding request and no other write; an Add reaches Create
\* only when CheckDuplicate finds nothing, and returns nil or a provider
\* error only after a Create.
C1_DuplicateGuard ==
    \A p \in Procs : op[p] = "Add" =>
        /\ pc[p] = "create" => CheckDuplicate(books, b[p]).existing = << >>
        /\ ret[p].kind = "DuplicateError" =>
              /\ calls[p] = NoCalls
              /\ b[p].ID = 0
              /\ LET dup == CheckDuplicate(books, b[p])
                 IN  dup.existing # << >>
                       /\ ret[p] = DuplicateError(dup.existing, dup.reason)
              /\ ret[p].existing[1] \in {GetAll(books)[i] : i \in DOMAIN GetAll(books)}
        /\ Done(p) /\ ret[p].kind \in {"ok", "ProviderError"} => calls[p].create = 1

\* An Add of a candidate that matches a stored record by title and author
\* has returned the DuplicateError.
C1_Witness ==
    /\ op[1] = "Add" /\ Done(1)
    /\ ret[1].kind = "DuplicateError" /\ ret[1].reason = "title+author"
    /\ b[1].Title = Str_d /\ ret[1].existing[1].Title = Str_D

FoldChar(c) ==
    IF (c >= 65 /\ c <= 90) \/ (c >= 192 /\ c <= 222 /\ c # 215) THEN c + 32 ELSE c

\* The two strings are equal but for the case of their letters.
EqualFold(s, t) ==
    Len(s) = Len(t) /\ \A i \in DOMAIN s : FoldChar(s[i]) = FoldChar(t[i])

\* C3: when the ISBN rule reports no match, CheckDuplicate reports a match
\* with reason "title+author" if and only if the candidate's title and
\* author are both non-empty and some stored record has a case-insensitively
\* equal title and author.
C3_TitleAuthorRule ==
    \A c \in Candidates :
        CheckISBN(books, c) = << >> =>
            ( CheckDuplicate(books, c).reason = "title+author"
              <=> /\ c.Title # Empty /\ c.Author # Empty
                  /\ \E i \in DOMAIN books :
                        /\ EqualFold(books[i].Title, c.Title)
                        /\ EqualFold(books[i].Author, c.Author) )

\* The IDs of the books of a result list.
ResultIDs(results) == {results[i].Book.ID : i \in DOMAIN results}

\* Book id is in no answer of Search or FindSimilar over table t.
Unsearchable(t, id) ==
    /\ \A q \in QueryVectors, limit \in Limits :
          id \notin ResultIDs(SearchResults(t, q, limit))
    /\ \A seed \in 1..nextID, limit \in Limits :
          id \notin ResultIDs(FindSimilarResults(t, seed, limit))

\* C4: when the embedding request of an Add fails after its Create, the Add
\* has returned an error and the record stays stored under its assigned ID
\* with the candidate's fields and no embedding: List has it, and no Search
\* or FindSimilar answer does.
C4_PartialFailureKept ==
    \A p \in Procs :
        (op[p] = "Add" /\ Done(p) /\ ret[p] = ProviderError) =>
            /\ calls[p].create = 1 /\ calls[p].generate = 1
            /\ calls[p].setEmbedding = 0
            /\ b[p].ID \in DOMAIN books
            /\ books[b[p].ID] = Columns(b[p]) @@ [embedding |-> NullBlob]
            /\ \E i \in DOMAIN GetAll(books) : GetAll(books)[i].ID = b[p].ID
            /\ Unsearchable(books, b[p].ID)

\* An Add has failed at its embedding request while another record, with an
\* embedding, is there to be found.
C4_Witness ==
    /\ op[1] = "Add" /\ Done(1) /\ ret[1] = ProviderError
    /\ \E j \in DOMAIN books : j # b[1].ID /\ BlobLen(books[j].embedding) > 0
    /\ \E q \in QueryVectors : SearchResults(books, q, 0) # << >>

\* C5: an Add that repeats, with the same candidate, an Add that failed at
\* its embedding request, and that meets no provider or storage failure,
\* leaves the record of the failed Add with a stored, non-empty embedding.
C5_RetryEmbeds ==
    \A p \in Procs :
        (op[p] = "Add" /\ retryOf[p] # 0 /\ Done(p)
           /\ ret[p].kind \notin {"ProviderError", "StorageFailure"}) =>
            /\ retryOf[p] \in DOMAIN books
            /\ BlobLen(books[retryOf[p]].embedding) > 0

\* C6: an Update whose ID is not in the catalog makes no embedding request
\* and returns an error (NotFound, unless the store itself failed).
C6_UpdateNotFound ==
    \A p \in Procs :
        (op[p] = "Update" /\ b[p].ID \notin DOMAIN books) =>
            \/ pc[p] = "update"
            \/ /\ Done(p)
               /\ ret[p].kind \in {"NotFound", "StorageFailure"}
               /\ calls[p].generate = 0

\* An Update of an existing ID has returned nil.
UpdateDone(p) ==
    op[p] = "Update" /\ Done(p) /\ ret[p] = Ok /\ b[p].ID \in DOMAIN books

\* What an Update that returned nil has done, but for the embedding it left.
UpdateEffect(p) ==
    /\ Columns(books[b[p].ID]) = Columns(b[p])
    /\ gen[p].text = buildEmbeddingText(scanBook(b[p].ID, books[b[p].ID]))
    /\ calls[p].update = 1 /\ calls[p].generate = 1 /\ calls[p].setEmbedding = 1

\* C7 as stated: after an Update of an existing ID returned nil, the stored
\* fields are b's, one embedding request was made, for the text of the
\* stored fields, and the record's embedding is exactly the vector the
\* provider answered.
C7_UpdateStoresProviderVector ==
    \A p \in Procs :
        UpdateDone(p) =>
            /\ UpdateEffect(p)
            /\ GetByID(books, b[p].ID)[1].Embedding = gen[p].vec

\* C7, amended: ... and the stored embedding is the encoding of the vector
\* the provider answered: read back, each component of that vector rounded
\* to six decimal places.
C7_UpdateStoresEncodedVector ==
    \A p \in Procs :
        UpdateDone(p) =>
            /\ UpdateEffect(p)
            /\ books[b[p].ID].embedding = encodeEmbedding(gen[p].vec)
            /\ GetByID(books, b[p].ID)[1].Embedding
                  = [i \in DOMAIN gen[p].vec |-> 10 * FormatF(gen[p].vec[i])]

\* An Update has returned nil with a provider vector that six decimals do
\* not hold.
C7_Witness ==
    /\ UpdateDone(1)
    /\ gen[1].vec = <<14, 6>>
    /\ GetByID(books, b[1].ID)[1].Embedding = <<10, 10>>

\* C15: the ID Create assigns is beyond every ID assigned before it, whatever
\* ID the candidate carried and whatever was deleted since, so that it is
\* the ID of no record that exists or has existed; no other step adds a
\* record, and every stored ID is below the next one to assign.
C15_RecordIdentity ==
    [][ LET new == DOMAIN books' \ DOMAIN books
        IN  /\ nextID' >= nextID
            /\ \A id \in new : nextID <= id /\ id < nextID'
            /\ \A id \in DOMAIN books' : id < nextID'
            /\ new # {} =>
                  /\ pc[1] = "create" /\ pc'[1] = "generate"
                  /\ new = {b'[1].ID}
                  /\ Columns(books'[b'[1].ID]) = Columns(b[1])
                  /\ \A id \in DOMAIN books : books'[id] = books[id]
            /\ (pc[1] = "create" /\ pc'[1] = "generate") => new # {} ]_vars

\* A Create has been given ID 2 when the only record there had been, of ID
\* 1, was deleted before it.
C15_Witness ==
    /\ op[1] \in {"Add", "AddSkipDuplicateCheck"} /\ pc[1] = "generate"
    /\ calls[1].create = 1
    /\ DOMAIN books = {2} /\ b[1].ID = 2

\* C19: a call whose store statement failed has reported a storage failure
\* to its caller, having made no step after the failure; IsDuplicate
\* answers false only when the lookups succeeded and found no match.
C19_StorageErrorsSurface ==
    \A p \in Procs :
        /\ ret[p].reason = "error dropped" => ret[p].kind = "StorageFailure"
        /\ (op[p] = "IsDuplicate" /\ ret[p].kind = "false") =>
              /\ ret[p].reason = ""
              /\ CheckDuplicate(books, b[p]).existing = << >>
        /\ ret[p].kind = "StorageFailure" =>
              /\ Done(p)
              /\ op[p] \in {"Add", "AddSkipDuplicateCheck"} =>
                    \/ calls[p] = NoCalls
                    \/ calls[p] = [NoCalls EXCEPT !.create = 1, !.generate = 1]
              /\ op[p] = "Update" =>
                    \/ calls[p] = NoCalls
                    \/ calls[p] = [NoCalls EXCEPT !.update = 1, !.generate = 1]

\* What an Add that passed the detector has done when it returns: a function
\* of the candidate, the ID assigned and the provider's answer.
AddOutcome(p) ==
    LET created == [NoCalls EXCEPT !.create = 1, !.generate = 1]
        row(blob) == b[p].ID \in DOMAIN books
                     /\ books[b[p].ID] = Columns(b[p]) @@ [embedding |-> blob]
    IN  /\ ret[p] = Ok =>
              /\ calls[p] = [created EXCEPT !.setEmbedding = 1]
              /\ gen[p].text = buildEmbeddingText(b[p])
              /\ row(encodeEmbedding(gen[p].vec))
        /\ ret[p] = ProviderError => calls[p] = created /\ row(NullBlob)
        /\ ret[p] = StorageFailure =>
              \/ calls[p] = NoCalls
              \/ calls[p] = created /\ row(NullBlob)

\* C20: AddSkipDuplicateCheck makes no lookup and never returns a
\* DuplicateError; its Create stores the candidate under a new ID of its
\* own, beside the record it matches if there is one; and when it returns it
\* has done what an Add that passed the detector has done, for the same
\* candidate, ID and provider answer, no step of either touching another
\* record.
C20_AddSkipIsAddMinusDetector ==
    [][ /\ op[1] = "AddSkipDuplicateCheck" =>
              /\ pc[1] \notin {"checkISBN", "checkTitleAuthor"}
              /\ ret[1].kind # "DuplicateError"
        /\ (op[1] \in {"Add", "AddSkipDuplicateCheck"} /\ Done(1)
              /\ ret[1].kind # "DuplicateError") => AddOutcome(1)
        /\ (op[1] = "AddSkipDuplicateCheck" /\ pc[1] = "create" /\ pc'[1] # "done") =>
              /\ pc'[1] = "generate"
              /\ b'[1].ID \notin DOMAIN books
              /\ DOMAIN books' = DOMAIN books \cup {b'[1].ID}
              /\ books'[b'[1].ID] = Columns(b[1]) @@ [embedding |-> NullBlob]
        /\ (op[1] \in {"Add", "AddSkipDuplicateCheck"} /\ op'[1] = op[1]) =>
              \A id \in DOMAIN books :
                  id # b'[1].ID => id \in DOMAIN books' /\ books'[id] = books[id]
      ]_vars

\* AddSkipDuplicateCheck has returned nil for a candidate that another
\* stored record matches by title and author.
C20_Witness ==
    /\ op[1] = "AddSkipDuplicateCheck" /\ Done(1) /\ ret[1] = Ok
    /\ \E j \in DOMAIN books :
          /\ j # b[1].ID
          /\ CheckTitleAuthor(books, b[1]) = GetByID(books, j)

\* C24: a Delete that the store does not fail returns nil whether or not
\* the ID is stored; it removes that record and touches no other, so that
\* on an ID that is not stored (never stored, or deleted before) it changes
\* nothing; and after it Get finds nothing under the ID and no List, Search
\* or FindSimilar answer has it.
C24_DeleteIdempotent ==
    [][ (op[1] = "Delete" /\ pc[1] = "delete" /\ ret'[1] # StorageFailure) =>
          LET id == b[1].ID
          IN  /\ pc'[1] = "done" /\ ret'[1] = Ok
              /\ DOMAIN books' = DOMAIN books \ {id}
              /\ \A j \in DOMAIN books' : books'[j] = books[j]
              /\ id \notin DOMAIN books => books' = books
              /\ GetByID(books', id) = << >>
              /\ id \notin ResultIDs(AsResults(GetAll(books')))
              /\ \A status \in {"want_to_read", "reading", "read"} :
                    id \notin ResultIDs(AsResults(GetByStatus(books', status)))
              /\ Unsearchable(books', id)
      ]_vars

\* A Delete of an ID that was never assigned has returned nil, a record with
\* an embedding being stored.
C24_Witness ==
    /\ op[1] = "Delete" /\ Done(1) /\ ret[1] = Ok
    /\ b[1].ID >= nextID
    /\ \E j \in DOMAIN books : BlobLen(books[j].embedding) > 0

(***************************************************************************)
(* Claims about the callers' flows (specification SpecFlows)               *)
(***************************************************************************)
\* C16: with the flows run one at a time, a step that moves a stored record
\* into status read leaves it with a completion date (the time of the flow
\* when it had none), and no step changes or clears a completion date that
\* is set, whatever the status moves to.
C16_CompletionStamp ==
    [][ \A id \in DOMAIN books \cap DOMAIN books' :
          /\ (books[id].Status # StatusRead /\ books'[id].Status = StatusRead) =>
                books'[id].DateRead \in Times
          /\ books[id].DateRead # 0 => books'[id].DateRead = books[id].DateRead
      ]_vars

\* A record stamped at time 1 and moved out of read since is being moved
\* back into read by an Update that carries the date of time 1.
C16_Witness ==
    /\ op[1] = "Update" /\ pc[1] = "update"
    /\ b[1].ID \in DOMAIN books
    /\ books[b[1].ID].Status = "reading" /\ books[b[1].ID].DateRead = 1
    /\ b[1].Status = StatusRead /\ b[1].DateRead = 1

\* The candidate has an empty title or author, a status that is none of
\* the three, or a rating outside 0..5.
Invalid(bk) ==
    \/ bk.Title = Empty \/ bk.Author = Empty
    \/ ~IsValid(bk.Status)
    \/ bk.Rating \notin 0..5

\* C17: an Add of an invalid candidate makes no Create and no embedding
\* request, and returns a validation error.
C17_ValidationFirst ==
    \A p \in Procs :
        (op[p] \in {"Add", "addCmd"} /\ Invalid(b[p])) =>
            /\ calls[p] = NoCalls
            /\ pc[p] \notin {"create", "generate", "setEmbedding"}
            /\ Done(p) => ret[p] = ValidationFailure

\* C18: every stored record has one of the three statuses and a rating
\* that is 0 or in 1..5.
C18_StatusRatingValid ==
    \A id \in DOMAIN books :
        IsValid(books[id].Status) /\ books[id].Rating \in 0..5

(***************************************************************************)
(* Claims about the retrieval engine (specification SpecSearch)            *)
(***************************************************************************)
\* The rows of table t that hold a non-empty embedding.
Embedded(t) == {i \in DOMAIN t : BlobLen(t[i].embedding) > 0}

\* C8: whatever the catalog, an Add between its Create and its
\* UpdateEmbedding or a failed embedding request included, every record
\* Search returns has a non-empty embedding, in the answer and in the table.
C8_SearchOnlyEmbedded ==
    reply.op = "Search" =>
        /\ \A i \in DOMAIN reply.results : Len(reply.results[i].Book.Embedding) > 0
        /\ ResultIDs(reply.results) \subseteq Embedded(books)

\* Search has answered with a record while an Add is between its Create and
\* its UpdateEmbedding and another record holds an empty embedding.
C8_Witness ==
    /\ reply.op = "Search" /\ reply.results # << >>
    /\ op[1] = "Add" /\ pc[1] \in {"generate", "setEmbedding"}
    /\ b[1].ID \in DOMAIN books /\ books[b[1].ID].embedding.null
    /\ \E i \in DOMAIN books :
          ~books[i].embedding.null /\ BlobLen(books[i].embedding) = 0

\* C9: no record FindSimilar(seed, limit) returns has the seed's ID; the
\* records it returns are records other than the seed with a non-empty
\* embedding, each once, and all of them unless the limit cuts the list.
C9_FindSimilarExcludesSeed ==
    reply.op = "FindSimilar" =>
        LET pool == Embedded(books) \ {reply.seed}
        IN  /\ reply.seed \notin ResultIDs(reply.results)
            /\ ResultIDs(reply.results) \subseteq pool
            /\ Cardinality(ResultIDs(reply.results)) = Len(reply.results)
            /\ reply.seed \in Embedded(books) =>
                  Len(reply.results) =
                     IF reply.limit > 0 /\ Cardinality(pool) > reply.limit
                     THEN reply.limit ELSE Cardinality(pool)

\* FindSimilar has answered with the two other embedded records, the seed
\* lying between them in the table.
C9_Witness ==
    /\ reply.op = "FindSimilar" /\ reply.limit = 0
    /\ Len(reply.results) = 2
    /\ \E i, j \in ResultIDs(reply.results) : i < reply.seed /\ reply.seed < j

\* C10: in an answer of Search or of FindSimilar a similarity is never
\* below one that follows it.
C10_ResultsSorted ==
    reply.op \in {"Search", "FindSimilar"} =>
        \A i, j \in DOMAIN reply.results :
            i < j => reply.results[i].Similarity >= reply.results[j].Similarity

\* FindSimilar has answered with two records of different similarity that
\* the table holds in the other order, and so does Search for some query.
C10_Witness ==
    /\ reply.op = "FindSimilar" /\ Len(reply.results) = 2
    /\ reply.results[1].Similarity > reply.results[2].Similarity
    /\ reply.results[1].Book.ID > reply.results[2].Book.ID
    /\ \E q \in QueryVectors :
          LET r == SearchResults(books, q, 0)
          IN  /\ Len(r) >= 3
              /\ r[1].Similarity > r[3].Similarity
              /\ r[1].Book.ID > r[3].Book.ID

\* The vector the answer's scores are taken against: the query's, or the
\* seed's as stored.
ReplyVector ==
    IF reply.op = "Search" THEN reply.query
    ELSE GetByID(books, reply.seed)[1].Embedding

\* The candidates of the request answered: the records with a non-empty
\* embedding, but for the seed.
ReplyPool ==
    IF reply.op = "Search" THEN Embedded(books)
    ELSE Embedded(books) \ {reply.seed}

\* The score of record id for the request answered.
ReplyScore(id) == cosineSimilarity(ReplyVector, GetByID(books, id)[1].Embedding)

\* Search has answered, or FindSimilar has for a seed that has an embedding.
Answered ==
    /\ reply.op \in {"Search", "FindSimilar"} /\ ~reply.err
    /\ reply.op = "FindSimilar" => reply.seed \in Embedded(books)

\* C11: an answer lists candidates only, each once and with its score; with
\* limit > 0 it has min(limit, number of candidates) entries and no omitted
\* candidate scores above a returned one; with limit <= 0 it has every
\* candidate.
C11_LimitSemantics ==
    Answered =>
        LET ids == ResultIDs(reply.results)
            n == Cardinality(ReplyPool)
        IN  /\ ids \subseteq ReplyPool
            /\ Cardinality(ids) = Len(reply.results)
            /\ \A i \in DOMAIN reply.results :
                  reply.results[i].Similarity = ReplyScore(reply.results[i].Book.ID)
            /\ reply.limit > 0 =>
                  /\ Len(reply.results) = IF reply.limit < n THEN reply.limit ELSE n
                  /\ \A i \in ids, j \in ReplyPool \ ids : ReplyScore(i) >= ReplyScore(j)
            /\ reply.limit <= 0 => ids = ReplyPool

\* Search with limit 1 has answered with the best of three candidates, the
\* first of the table scoring lower.
C11_Witness ==
    /\ reply.op = "Search" /\ ~reply.err /\ reply.limit = 1
    /\ Cardinality(ReplyPool) = 3 /\ Len(reply.results) = 1
    /\ \E j \in ReplyPool :
          j < reply.results[1].Book.ID /\ ReplyScore(j) < reply.results[1].Similarity

C14_ListEmbeddedExact ==
    LET bks == GetAllWithEmbeddings(books)
    IN  /\ {bks[i].ID : i \in DOMAIN bks} = Embedded(books)
        /\ \A i \in DOMAIN bks : Len(bks[i].Embedding) > 0

(***************************************************************************)
(* Claims about reading a stored table (specification SpecStored)          *)
(***************************************************************************)
\* The blob is empty, or has a part that is no number.
Degraded(blob) ==
    ~blob.null /\ (blob.parts = << >> \/ \E i \in DOMAIN blob.parts : ~blob.parts[i].ok)

\* C13: a record whose stored blob is empty or malformed is read by Get and
\* List without error and with an empty embedding, and is in no answer of
\* Search or FindSimilar.
C13_DecodeDegrades ==
    /\ (reply.op = "Get" /\ reply.seed \in DOMAIN books) =>
          ~reply.err /\ ResultIDs(reply.results) = {reply.seed}
    /\ reply.op = "List" => ~reply.err /\ ResultIDs(reply.results) = DOMAIN books
    /\ reply.op \in {"Get", "List"} =>
          \A i \in DOMAIN reply.results :
              Degraded(books[reply.results[i].Book.ID].embedding) =>
                  reply.results[i].Book.Embedding = << >>
    /\ reply.op \in {"Search", "FindSimilar"} =>
          \A i \in DOMAIN reply.results :
              ~Degraded(books[reply.results[i].Book.ID].embedding)

(***************************************************************************)
(* Claims about concurrent requests (specification SpecRace)               *)
(***************************************************************************)
\* C21: when two Updates of one stored ID, served at once, have both
\* returned nil, the record's stored fields and its stored embedding are
\* those of one and the same of the two: the fields that Update wrote and
\* the encoding of the vector the provider answered for their text.
C21_LastWriterWins ==
    \A id \in DOMAIN books :
        (\A p \in Procs : op[p] = "Update" /\ Done(p) /\ ret[p] = Ok /\ b[p].ID = id) =>
            /\ \E p \in Procs :
                  /\ Columns(books[id]) = Columns(b[p])
                  /\ books[id].embedding = encodeEmbedding(gen[p].vec)
            /\ books[id].embedding =
                  encodeEmbedding(Provider(buildEmbeddingText(scanBook(id, books[id]))))

\* The two candidates match: the same non-empty ISBN, or titles and authors
\* that are non-empty and equal but for case.
Matching(c, d) ==
    \/ c.ISBN # Empty /\ c.ISBN = d.ISBN
    \/ /\ c.Title # Empty /\ c.Author # Empty
       /\ EqualFold(c.Title, d.Title) /\ EqualFold(c.Author, d.Author)

\* C28: of two Adds of matching candidates served at once, the records of
\* both are never stored together: an Add that makes no Create returns a
\* DuplicateError, and once the record of one is stored the other makes none.
C28_GuardUnderInterleaving ==
    \A p, q \in Procs :
        (p # q /\ op[p] = "Add" /\ op[q] = "Add" /\ Matching(b[p], b[q])) =>
            /\ (Done(q) /\ calls[q].create = 0) => ret[q].kind = "DuplicateError"
            /\ ~( /\ calls[p].create = 1 /\ b[p].ID \in DOMAIN books
                  /\ calls[q].create = 1 /\ b[q].ID \in DOMAIN books )

\* C29: no step stores a record under an ID that was assigned before and is
\* not stored, that is, under the ID of a deleted record: the Update and
\* the UpdateEmbedding of a request that was in flight when the record was
\* deleted do not bring it back, and Get, List and the scan of Search and
\* FindSimilar stay without it.
C29_DeletedStaysDeleted ==
    [][ \A id \in 1..(nextID - 1) :
          id \notin DOMAIN books =>
              /\ id \notin DOMAIN books'
              /\ GetByID(books', id) = << >>
              /\ id \notin ResultIDs(AsResults(GetAll(books')))
              /\ id \notin ResultIDs(AsResults(GetAllWithEmbeddings(books')))
      ]_vars

\* A Delete has returned nil for the record of an Add that has its vector
\* and is about to make its UpdateEmbedding, another record being stored.
C29_Witness ==
    \E p, q \in Procs :
        /\ op[p] = "Delete" /\ Done(p) /\ ret[p] = Ok
        /\ op[q] = "Add" /\ pc[q] = "setEmbedding" /\ b[q].ID = b[p].ID
        /\ b[q].ID \notin DOMAIN books
        /\ books # << >>

(***************************************************************************)
(* Claims about the retrieval engine over a larger table (SpecScan)        *)
(***************************************************************************)
\* C22: in an answer of Search or of FindSimilar, of two records with equal
\* similarity the one that GetAllWithEmbeddings returned first comes first.
C22_TiesInScanOrder ==
    reply.op \in {"Search", "FindSimilar"} =>
        LET scan == GetAllWithEmbeddings(books)
            at(id) == CHOOSE k \in DOMAIN scan : scan[k].ID = id
        IN  \A i, j \in DOMAIN reply.results :
                (i < j /\ reply.results[i].Similarity = reply.results[j].Similarity) =>
                    at(reply.results[i].Book.ID) < at(reply.results[j].Book.ID)

(***************************************************************************)
(* Claims about listing (specification SpecList)                           *)
(***************************************************************************)
\* C23: List answers with every stored record and ListByStatus(s) with
\* exactly the stored records of status s, each once, and in both a record
\* created later (of a greater ID) comes before every record created earlier.
C23_ListedNewestFirst ==
    reply.op \in {"List", "ListByStatus"} =>
        /\ ~reply.err
        /\ Cardinality(ResultIDs(reply.results)) = Len(reply.results)
        /\ ResultIDs(reply.results) =
              IF reply.op = "List" THEN DOMAIN books
              ELSE {id \in DOMAIN books : books[id].Status = reply.query[1]}
        /\ \A i, j \in DOMAIN reply.results :
              i < j => reply.results[i].Book.ID > reply.results[j].Book.ID

(***************************************************************************)
(* Claims about the functions on vectors (specification SpecVectors)       *)
(***************************************************************************)
\* Every component of v is zero (so is it of the empty vector).
ZeroNorm(v) == \A i \in DOMAIN v : v[i] = 0

\* C25: cosineSimilarity answers 0 for two vectors of different lengths and
\* for two vectors one of which has all its components zero or is empty.
C25_CosineZeroCases ==
    reply.op = "cosineSimilarity" =>
        LET a == reply.query
            b2 == reply.results[1].Book.Embedding
        IN  (Len(a) # Len(b2) \/ ZeroNorm(a) \/ ZeroNorm(b2)) =>
                reply.results[1].Similarity = 0

\* cosineSimilarity has answered for a vector and a longer one that begins
\* with it.
C25_Witness ==
    /\ reply.op = "cosineSimilarity"
    /\ reply.query = <<10>>
    /\ reply.results[1].Book.Embedding = <<10, 0>>
    /\ reply.results[1].Similarity = 0

\* C26: for a non-empty vector v, decodeEmbedding(encodeEmbedding(v)) has
\* as many components as v and each is within half a millionth (5 ticks) of
\* the component of v.
C26_CodecRoundTrip ==
    (reply.op = "codec" /\ reply.query # << >>) =>
        LET v == reply.query
            w == reply.results[1].Book.Embedding
        IN  /\ Len(w) = Len(v)
            /\ \A i \in DOMAIN v : Abs(w[i] - v[i]) <= 5

\* A vector with a component that six decimals do not hold has been encoded
\* and decoded, the component coming back rounded.
C26_Witness ==
    /\ reply.op = "codec"
    /\ reply.query = <<-15, 4>>
    /\ reply.results[1].Book.Embedding = <<-20, 0>>

(***************************************************************************)
(* Claims about the guarded operations (specification SpecGuarded)         *)
(***************************************************************************)
\* C27: whatever guarded Adds, Updates and Deletes have run, one at a time,
\* no two stored records have the same non-empty ISBN, and no two with
\* non-empty titles and authors have titles and authors equal but for case.
C27_CatalogIntegrity ==
    \A i, j \in DOMAIN books :
        i # j =>
            /\ ~(books[i].ISBN # Empty /\ books[i].ISBN = books[j].ISBN)
            /\ ~( /\ books[i].Title # Empty /\ books[i].Author # Empty
                  /\ books[j].Title # Empty /\ books[j].Author # Empty
                  /\ EqualFold(books[i].Title, books[j].Title)
                  /\ EqualFold(books[i].Author, books[j].Author) )


\* C30: when no Add or Update is in flight, every stored record that has an
\* embedding has the encoding of the vector the provider answers for the
\* text built from the record's stored fields.
C30_EmbeddingMatchesText ==
    (\A p \in Procs : pc[p] \in {"idle", "done"}) =>
        \A id \in DOMAIN books :
            ~books[id].embedding.null =>
                books[id].embedding =
                    encodeEmbedding(
                        Provider(buildEmbeddingText(scanBook(id, books[id]))))

====
